---- MODULE Spec2Model ----
(***************************************************************************)
(* Rate acquisition and caching subsystem of the currency converter:       *)
(* the RateCache class, the rate fetcher (fetchExchangeRates and its       *)
(* helpers), the orchestrator (getRates, refreshRates, preloadRates), the   *)
(* conversion engine (calculateCrossRate, performConversion, rounding,     *)
(* formatCurrency, validateAmount) and the hooks (useRates,                *)
(* useConversion).                                                         *)
(*                                                                         *)
(* Every operation is modelled from its body in the sources.  Most bodies  *)
(* are placeholders (the "TODO" steps are comments, the executable part is *)
(* a `return null`, `return false` or a `throw ... not implemented`), and  *)
(* the model keeps exactly that executable part.  None of the async        *)
(* functions contains an await, so each call runs to completion in one     *)
(* step of the event loop: one action per call.                            *)
(*                                                                         *)
(* Time is in milliseconds, as Date.now().                                 *)
(***************************************************************************)
EXTENDS Integers, Sequences, FiniteSets, TLC

(***************************************************************************)
(* Program constants (lib/constants/config).                               *)
(***************************************************************************)
RATE_CACHE_DURATION == 5 * 60 * 1000

STALE_CACHE_THRESHOLD == 24 * 60 * 60 * 1000

RETRY_ATTEMPTS == 2

RETRY_DELAYS == <<200, 400>>

API_TIMEOUT == 5000

API_REFRESH_INTERVAL == 5 * 60 * 1000

\* lib/constants/currencies.
DEFAULT_BASE_CURRENCY == "USD"

DEFAULT_TARGET_CURRENCY == "EUR"

STORAGE_KEYS == [RATE_CACHE |-> "currency_converter_rate_cache",
                 USER_PREFERENCES |-> "currency_converter_preferences"]

(***************************************************************************)
(* Bounds of the model and the inputs the environment draws from.          *)
(***************************************************************************)
\* How many times the clock advances in one behaviour.
MaxTicks == 1

\* The amounts the clock advances by: 4:59, 5:00, 5:01, 10 h, 23:59, 24:01.
Jumps == {299000, 300000, 301000, 36000000, 86340000, 86460000}

\* Base currency codes passed by callers (two spellings of one code).
Bases == {"USD", "usd", "EUR"}

\* The EUR rate quoted by the provider, in hundredths (93 is 0.93).
Quotes == {93, 95}

\* The lists preloadRates is called with.
PreloadLists == {<<>>, <<"USD">>, <<"USD", "EUR">>}

\* The currency codes conversions are asked for.
Codes == {"USD", "EUR", "JPY"}

\* The amounts converted: 100, 1, 2.5 and 0.
Amounts == {[num |-> 100, den |-> 1], [num |-> 1, den |-> 1],
            [num |-> 5, den |-> 2], [num |-> 0, den |-> 1]}

\* The rate snapshots conversions read: rates per unit of `base`, the base
\* itself listed or not, a currency missing or not, a rate zero, negative,
\* Infinity or NaN.
Snapshots ==
    {[base |-> "USD", timestamp |-> 1700000000,
      rates |-> [EUR |-> [num |-> 93, den |-> 100],
                 JPY |-> [num |-> 14125, den |-> 100]]],
     [base |-> "USD", timestamp |-> 1700000300,
      rates |-> [USD |-> [num |-> 1, den |-> 1],
                 EUR |-> [num |-> 95, den |-> 100]]],
     [base |-> "EUR", timestamp |-> 1700000000,
      rates |-> [USD |-> [num |-> 108, den |-> 100],
                 JPY |-> [num |-> 152, den |-> 1]]],
     [base |-> "EUR", timestamp |-> 1700000300,
      rates |-> [JPY |-> [num |-> 150, den |-> 1]]],
     [base |-> "USD", timestamp |-> 1700000600,
      rates |-> [EUR |-> [num |-> 0, den |-> 1],
                 JPY |-> [num |-> -5, den |-> 1]]],
     [base |-> "USD", timestamp |-> 1700000900,
      rates |-> [EUR |-> [num |-> 1, den |-> 0],
                 JPY |-> [num |-> 0, den |-> 0]]]}

\* The values rounded: 0.5, 1.5, 2.5, 3.5, 0.125 and 1.234, each exact in
\* binary floating point except the last, which is no tie at any precision
\* used.
RoundValues == {[num |-> 1, den |-> 2], [num |-> 3, den |-> 2],
                [num |-> 5, den |-> 2], [num |-> 7, den |-> 2],
                [num |-> 1, den |-> 8], [num |-> 1234, den |-> 1000]}

\* The precisions rounded to.
RoundDecimals == {0, 2}

\* The texts the amount state is set to.
AmountTexts == {"", "100"}

\* The texts typed into the amount field.
RawInputs == {"", "100.50", "-50", "1234567890123456", "abc", "1,234.56"}

\* What the rate provider does with a request made now:
\*   ok                 200 with a well-formed body
\*   network_error      the connection fails
\*   hang               no response within any timeout
\*   http_500, http_404 a non-2xx status
\*   no_timestamp, no_rates, old_timestamp, rate_zero, rate_nan
\*                      200 with a body that breaks a validation rule
ProviderModes == {"ok", "network_error", "hang", "http_500", "http_404",
                  "no_timestamp", "no_rates", "old_timestamp", "rate_zero",
                  "rate_nan"}

Null == [isNull |-> TRUE]

(***************************************************************************)
(* State.                                                                  *)
(*   now         Date.now()                                                *)
(*   ticks       how many times the clock has advanced (bounded)           *)
(*   provider    the rate provider's present behaviour (environment)       *)
(*   quote       the EUR rate the provider presently quotes (environment)  *)
(*   memoryCache RateCache.memoryCache: cache key -> CachedRates or Null   *)
(*   cachedData  per cache key, the CachedRates record `cachedData` that   *)
(*               set() built on its latest call for the key, Null when     *)
(*               there was none since the last clear()/clearCurrency():    *)
(*               a history of what the cache was asked to hold, read by no *)
(*               operation                                                 *)
(*   localStorage  window.localStorage: cache key -> stored item or Null   *)
(*               (environment: it outlives the page and any script of the  *)
(*               origin may have written it)                               *)
(*   storageMode how localStorage answers an access (environment)          *)
(*   useRates    the state cells of the useRates hook (data, loading,      *)
(*               error, source), its baseCurrency argument, whether its    *)
(*               component is mounted and since when, whether the fetch    *)
(*               effect is still to run, and the times at which the hook   *)
(*               called getRates or refreshRates                           *)
(*   useConversion  the state cells of the useConversion hook (amount,     *)
(*               fromCurrency, toCurrency, result, conversionError)        *)
(*   visibility  document.visibilityState and the time it last changed     *)
(*               (environment)                                             *)
(*   last        the call that returned in the latest step, with what it   *)
(*               returned ([op |-> "none"] after any other step)           *)
(***************************************************************************)
VARIABLES now, ticks, provider, quote, memoryCache, cachedData,
          localStorage, storageMode, useRates, useConversion, visibility,
          last

\* The state of the hooks and of the page they live in.
hookVars == <<useRates, useConversion, visibility>>

vars == <<now, ticks, provider, quote, memoryCache, cachedData,
          localStorage, storageMode, useRates, useConversion, visibility,
          last>>

(***************************************************************************)
(* Errors (lib/types/errors) and settled promises.                         *)
(***************************************************************************)
\* new Error(message)
Error(message) == [name |-> "Error", message |-> message]

\* new RateFetchError(message, code)
RateFetchError(message, code) ==
    [name |-> "RateFetchError", message |-> message, code |-> code]

\* A call that returned `value` after making the calls `calls`.
Resolved(value, calls) ==
    [settled |-> "resolved", value |-> value, calls |-> calls]

\* A call that threw `error` after making the calls `calls`.
Rejected(error, calls) ==
    [settled |-> "rejected", error |-> error, calls |-> calls]

(***************************************************************************)
(* RateCache.                                                              *)
(***************************************************************************)
\* String.prototype.toLowerCase on the codes of Bases.
toLowerCase(s) ==
    CASE s = "USD" -> "usd"
      [] s = "usd" -> "usd"
      [] s = "EUR" -> "eur"
      [] s = "eur" -> "eur"

\* The key without the lower-casing: what getCacheKey would address if the
\* code were used as typed.
getCacheKeyAsTyped(baseCurrency) ==
    STORAGE_KEYS.RATE_CACHE \o "_" \o baseCurrency

getCacheKey(baseCurrency) ==
    STORAGE_KEYS.RATE_CACHE \o "_" \o toLowerCase(baseCurrency)

Keys == {getCacheKey(b) : b \in Bases}

\* getLocalStorageItem(key): the placeholder returns null.
getLocalStorageItem(key) == Null

\* setLocalStorageItem(key, value): the placeholder returns without
\* touching localStorage; the items are left as they are.
setLocalStorageItem(key, value) == localStorage

\* get(baseCurrency): computes the key, then the placeholder returns null;
\* neither memoryCache nor localStorage is read.
get(baseCurrency) ==
    LET key == getCacheKey(baseCurrency)
    IN  Null

\* isValid(baseCurrency): false without an entry; the comparison with
\* expiresAt is a TODO and the placeholder returns false.
isValid(baseCurrency) ==
    LET cached == get(baseCurrency)
    IN  IF cached = Null THEN FALSE ELSE FALSE

\* isStale(baseCurrency): false without an entry; the age is computed, the
\* comparison is a TODO and the placeholder returns false.
isStale(baseCurrency) ==
    LET cached == get(baseCurrency)
    IN  IF cached = Null
        THEN FALSE
        ELSE LET age == now - cached.cachedAt
             IN  FALSE

\* The record set() builds from its argument.
CachedRates(data) ==
    [data |-> data, cachedAt |-> now, expiresAt |-> now + RATE_CACHE_DURATION]

(***************************************************************************)
(* Rate fetcher.                                                           *)
(***************************************************************************)
\* The body the provider answers a request for `base` with, per its mode.
\* An absent field is Null; a non-finite number is "NaN".
ResponseBody(base) ==
    [base |-> base,
     timestamp |-> CASE provider = "no_timestamp" -> Null
                     [] provider = "old_timestamp" ->
                            [ms |-> now - STALE_CACHE_THRESHOLD - 1000]
                     [] OTHER -> [ms |-> now],
     rates |-> CASE provider = "no_rates" -> Null
                 [] provider = "rate_zero" -> [EUR |-> [n |-> 0]]
                 [] provider = "rate_nan" -> [EUR |-> [n |-> "NaN"]]
                 [] OTHER -> [EUR |-> [n |-> quote]]]

\* validateRateResponse(data): the checks are a TODO and the placeholder
\* returns false for every input.
validateRateResponse(data) == FALSE

\* fetchWithTimeout(url, options, timeout): the placeholder throws before
\* any request is started.
fetchWithTimeout(url, timeout) ==
    Rejected(Error("fetchWithTimeout not implemented"), <<>>)

\* fetchExchangeRates(baseCurrency): the retry loop, the timeout and the
\* validation are TODOs; the placeholder throws without calling
\* fetchWithTimeout, sleep or validateRateResponse.
fetchExchangeRates(baseCurrency) ==
    Rejected(RateFetchError("fetchExchangeRates not implemented", "API_ERROR"),
             <<>>)

(***************************************************************************)
(* Orchestrator (lib/api/index).                                           *)
(***************************************************************************)
\* A getRates that rejects after storing an entry all the same.
getRatesStoring(baseCurrency) ==
    Rejected(RateFetchError("getRates not implemented", "API_ERROR"),
             <<[fn |-> "rateCache.set", base |-> baseCurrency]>>)

\* getRates(baseCurrency): the four steps are TODOs; the placeholder throws
\* without calling rateCache or fetchExchangeRates.
getRates(baseCurrency) ==
    Rejected(RateFetchError("getRates not implemented", "API_ERROR"), <<>>)

\* refreshRates(baseCurrency): the placeholder throws without calling
\* fetchExchangeRates or rateCache.
refreshRates(baseCurrency) ==
    Rejected(RateFetchError("refreshRates not implemented", "API_ERROR"), <<>>)

\* The value of a call that returns nothing.
Undefined == [isUndefined |-> TRUE]

\* preloadRates(currencies): the body is empty; it resolves with undefined
\* and calls neither getRates nor rateCache.
preloadRates(currencies) == Resolved(Undefined, <<>>)

(***************************************************************************)
(* The conversion engine.  A number is an exact fraction num / den with    *)
(* den > 0; the rounding errors of binary floating point are not modelled. *)
(* den = 0 stands for a non-finite number: Infinity (num > 0), NaN (0).    *)
(***************************************************************************)
Num(n, d) == [num |-> n, den |-> d]

NumEq(a, b) == a.num * b.den = b.num * a.den

RECURSIVE Pow10(_)
Pow10(d) == IF d = 0 THEN 1 ELSE 10 * Pow10(d - 1)

\* A synchronous call that returned `value`, or threw `error`.
Returned(value) == [threw |-> FALSE, value |-> value]

Threw(error) == [threw |-> TRUE, error |-> error]

\* CURRENCY_MAP, for the currencies the model converts between.
CURRENCY_MAP ==
    [USD |-> [code |-> "USD", symbol |-> "$", minorUnit |-> 2],
     EUR |-> [code |-> "EUR", symbol |-> "€", minorUnit |-> 2],
     JPY |-> [code |-> "JPY", symbol |-> "¥", minorUnit |-> 0]]

\* convertAmount(amount, rate): amount * rate.
convertAmount(amount, rate) == Num(amount.num * rate.num, amount.den * rate.den)

\* Math.round(x): the integer nearest to x, a tie going up.
MathRound(x) == (2 * x.num + x.den) \div (2 * x.den)

\* roundToDecimals(value, decimals):
\* Math.round(value * 10^decimals) / 10^decimals.
roundToDecimals(value, decimals) ==
    Num(MathRound(Num(value.num * Pow10(decimals), value.den)), Pow10(decimals))

\* roundToMinorUnit(value, minorUnit): roundToDecimals(value, minorUnit).
roundToMinorUnit(value, minorUnit) == roundToDecimals(value, minorUnit)

\* The `d` low decimal digits of n, zero-padded.
RECURSIVE Digits(_, _)
Digits(n, d) ==
    IF d = 0 THEN "" ELSE Digits(n \div 10, d - 1) \o ToString(n % 10)

\* Number.prototype.toFixed(d) for x >= 0: the integer n nearest to
\* x * 10^d (the larger one on a tie), written with d decimals.
toFixed(x, d) ==
    LET n == (2 * x.num * Pow10(d) + x.den) \div (2 * x.den)
    IN  ToString(n \div Pow10(d))
            \o (IF d = 0 THEN "" ELSE "." \o Digits(n % Pow10(d), d))

\* formatCurrency(amount, currencyCode): symbol and amount.toFixed(minorUnit),
\* or amount.toFixed(2) alone for a code CURRENCY_MAP does not know.
formatCurrency(amount, currencyCode) ==
    IF currencyCode \notin DOMAIN CURRENCY_MAP
    THEN toFixed(amount, 2)
    ELSE LET currency == CURRENCY_MAP[currencyCode]
         IN  currency.symbol \o toFixed(amount, currency.minorUnit)

\* getRate(currency, rates): the body is a single throw.
getRate(currency, rates) == Threw(Error("getRate not implemented"))

\* The rate read from the table as it is, a missing one reading as NaN.
calculateCrossRateUnchecked(fromCurrency, toCurrency, rates, baseCurrency) ==
    Returned(IF toCurrency \in DOMAIN rates THEN rates[toCurrency]
             ELSE Num(0, 0))

\* calculateCrossRate(fromCurrency, toCurrency, rates, baseCurrency): the
\* body is a single throw; no case is handled before it.
calculateCrossRate(fromCurrency, toCurrency, rates, baseCurrency) ==
    Threw(Error("calculateCrossRate not implemented"))

\* performConversion(amount, fromCurrency, toCurrency, rateData): the body
\* is a single throw.
performConversion(amount, fromCurrency, toCurrency, rateData) ==
    Threw(Error("performConversion not implemented"))

\* validateAmount(input): the body is a single return of the failure
\* result; the input is not looked at.
validateAmount(input) ==
    [valid |-> FALSE, error |-> "validateAmount not implemented"]

(***************************************************************************)
(* The hooks.  A state setter called in a handler or an effect takes       *)
(* effect at the re-render that follows; the updates of one run are        *)
(* applied in the order they were made.                                    *)
(***************************************************************************)
\* No component using the hooks is mounted.
UnmountedRates ==
    [mounted |-> FALSE, mountedAt |-> 0, baseCurrency |-> DEFAULT_BASE_CURRENCY,
     data |-> Null, loading |-> TRUE, error |-> Null, source |-> "network",
     effectPending |-> FALSE, requests |-> <<>>]

UnmountedConversion ==
    [amount |-> "", fromCurrency |-> DEFAULT_BASE_CURRENCY,
     toCurrency |-> DEFAULT_TARGET_CURRENCY,
     result |-> Null, conversionError |-> Null]

\* useRates(baseCurrency) at its first render: the useState initial values,
\* the fetch effect scheduled.
InitialRates(baseCurrency) ==
    [mounted |-> TRUE, mountedAt |-> now, baseCurrency |-> baseCurrency,
     data |-> Null, loading |-> TRUE, error |-> Null, source |-> "network",
     effectPending |-> TRUE, requests |-> <<>>]

setLoading(rates, value) == [rates EXCEPT !.loading = value]

setError(rates, value) == [rates EXCEPT !.error = value]

\* The try block of fetchRates alone: setLoading(true), setError(null); the
\* call of getRates is a comment, so no request is made and nothing throws.
fetchRatesTryBlock(rates) == setError(setLoading(rates, TRUE), Null)

\* fetchRates(): the try block, then finally setLoading(false).  The catch
\* block is never entered.
fetchRates(rates) == setLoading(setError(setLoading(rates, TRUE), Null), FALSE)

\* refetch(): the same shape; the call of refreshRates is a comment.
refetch(rates) == setLoading(setError(setLoading(rates, TRUE), Null), FALSE)

\* The useState setters of useConversion.
setFromCurrency(conv, newCurrency) == [conv EXCEPT !.fromCurrency = newCurrency]

setToCurrency(conv, newCurrency) == [conv EXCEPT !.toCurrency = newCurrency]

\* swap(): setFromCurrency(toCurrency); setToCurrency(fromCurrency), both
\* read from the render the callback was made in.
swap(conv) ==
    setToCurrency(setFromCurrency(conv, conv.toCurrency), conv.fromCurrency)

\* The from side set to whatever is asked, the other side not looked at.
handleFromCurrencyChangeUnguarded(conv, newCurrency) ==
    setFromCurrency(conv, newCurrency)

\* handleFromCurrencyChange(newCurrency), exposed as setFromCurrency.
handleFromCurrencyChange(conv, newCurrency) ==
    IF newCurrency = conv.toCurrency
    THEN swap(conv)
    ELSE setFromCurrency(conv, newCurrency)

\* handleToCurrencyChange(newCurrency), exposed as setToCurrency.
handleToCurrencyChange(conv, newCurrency) ==
    IF newCurrency = conv.fromCurrency
    THEN swap(conv)
    ELSE setToCurrency(conv, newCurrency)

\* The render after a change of useConversion's state: useRates is called
\* with the new fromCurrency, and a changed baseCurrency gives a new
\* fetchRates callback, so the fetch effect is scheduled again.
Rerender(rates, conv) ==
    IF conv.fromCurrency = rates.baseCurrency
    THEN rates
    ELSE [rates EXCEPT !.baseCurrency = conv.fromCurrency,
                       !.effectPending = TRUE]

(***************************************************************************)
(* Initial state: a constructed RateCache (an empty Map), nothing called.  *)
(***************************************************************************)
Idle == [op |-> "none"]

\* How localStorage answers: normally, or by throwing on setItem (quota) or
\* on every access (storage denied).
StorageModes == {"ok", "quota_exceeded", "access_denied"}

\* The CachedRates an earlier page load left under `key`.
StoredSnapshot(key) ==
    [data      |-> [base |-> IF key = getCacheKey("USD") THEN "USD" ELSE "EUR",
                    timestamp |-> [ms |-> 0],
                    rates |-> [EUR |-> [n |-> 93]]],
     cachedAt  |-> 0,
     expiresAt |-> RATE_CACHE_DURATION]

\* What localStorage may hold under `key`: nothing, text that is not JSON,
\* JSON that is not a CachedRates, or a CachedRates.
StoredItems(key) ==
    {Null,
     [raw |-> "{oops"],
     [raw |-> "json", parsed |-> [unrelated |-> TRUE]],
     [raw |-> "json", parsed |-> StoredSnapshot(key)]}

Init ==
    /\ now = 0
    /\ ticks = 0
    /\ provider \in ProviderModes
    /\ quote \in Quotes
    /\ memoryCache = [k \in Keys |-> Null]
    /\ cachedData = [k \in Keys |-> Null]
    /\ localStorage = [k \in Keys |-> Null]
    /\ storageMode = "ok"
    /\ useRates = UnmountedRates
    /\ useConversion = UnmountedConversion
    /\ visibility = [state |-> "visible", since |-> 0]
    /\ last = Idle

(***************************************************************************)
(* Environment.                                                            *)
(***************************************************************************)
\* Time passes.
Tick ==
    /\ ticks < MaxTicks
    /\ \E d \in Jumps : now' = now + d
    /\ ticks' = ticks + 1
    /\ last' = Idle
    /\ UNCHANGED <<provider, quote, memoryCache, cachedData, localStorage,
                   storageMode, hookVars>>

\* The provider's behaviour or its quoted rate changes.
ProviderChange ==
    /\ \E p \in ProviderModes, q \in Quotes :
          /\ <<p, q>> # <<provider, quote>>
          /\ provider' = p
          /\ quote' = q
    /\ last' = Idle
    /\ UNCHANGED <<now, ticks, memoryCache, cachedData, localStorage,
                   storageMode, hookVars>>

(***************************************************************************)
(* Calls of the exported operations.                                       *)
(***************************************************************************)
\* rateCache.set(b, data) with a snapshot at the present quote: builds cachedData;
\* the writes to memoryCache and localStorage are TODOs.
CallSet ==
    \E b \in Bases :
       LET data == [base |-> b, timestamp |-> [ms |-> now],
                    rates |-> [EUR |-> [n |-> quote]]]
       IN  /\ cachedData' = [cachedData EXCEPT ![getCacheKey(b)] = CachedRates(data)]
           /\ last' = [op |-> "set", base |-> b, key |-> getCacheKey(b),
                       threw |-> FALSE]
           /\ UNCHANGED <<now, ticks, provider, quote, memoryCache,
                          localStorage, storageMode, hookVars>>

\* rateCache.clear(): memoryCache.clear(); the localStorage part is a TODO.
CallClear ==
    /\ memoryCache' = [k \in Keys |-> Null]
    /\ cachedData' = [k \in Keys |-> Null]
    /\ last' = [op |-> "clear", threw |-> FALSE]
    /\ UNCHANGED <<now, ticks, provider, quote, localStorage, storageMode, hookVars>>

\* rateCache.clearCurrency(b): computes the key; both removals are TODOs.
CallClearCurrency ==
    \E b \in Bases :
       /\ cachedData' = [cachedData EXCEPT ![getCacheKey(b)] = Null]
       /\ last' = [op |-> "clearCurrency", base |-> b, key |-> getCacheKey(b),
                   threw |-> FALSE]
       /\ UNCHANGED <<now, ticks, provider, quote, memoryCache,
                      localStorage, storageMode, hookVars>>

\* rateCache.get(b)
CallGet ==
    \E b \in Bases :
       /\ last' = [op |-> "get", base |-> b, key |-> getCacheKey(b),
                   threw |-> FALSE, result |-> get(b)]
       /\ UNCHANGED <<now, ticks, provider, quote, memoryCache, cachedData,
                    localStorage, storageMode, hookVars>>

\* rateCache.isValid(b)
CallIsValid ==
    \E b \in Bases :
       /\ last' = [op |-> "isValid", base |-> b, key |-> getCacheKey(b),
                   threw |-> FALSE, result |-> isValid(b)]
       /\ UNCHANGED <<now, ticks, provider, quote, memoryCache, cachedData,
                    localStorage, storageMode, hookVars>>

\* rateCache.isStale(b)
CallIsStale ==
    \E b \in Bases :
       /\ last' = [op |-> "isStale", base |-> b, key |-> getCacheKey(b),
                   threw |-> FALSE, result |-> isStale(b)]
       /\ UNCHANGED <<now, ticks, provider, quote, memoryCache, cachedData,
                    localStorage, storageMode, hookVars>>

\* await fetchExchangeRates(b)
CallFetchExchangeRates ==
    \E b \in Bases :
       /\ last' = [op |-> "fetchExchangeRates", base |-> b,
                   result |-> fetchExchangeRates(b)]
       /\ UNCHANGED <<now, ticks, provider, quote, memoryCache, cachedData,
                    localStorage, storageMode, hookVars>>

\* await getRates(b)
CallGetRates ==
    \E b \in Bases :
       /\ last' = [op |-> "getRates", base |-> b, result |-> getRates(b),
                   previous |-> IF last.op = "getRates"
                                THEN [base |-> last.base,
                                      result |-> last.result]
                                ELSE Null]
       /\ UNCHANGED <<now, ticks, provider, quote, memoryCache, cachedData,
                    localStorage, storageMode, hookVars>>

\* await refreshRates(b)
CallRefreshRates ==
    \E b \in Bases :
       /\ last' = [op |-> "refreshRates", base |-> b, result |-> refreshRates(b)]
       /\ UNCHANGED <<now, ticks, provider, quote, memoryCache, cachedData,
                    localStorage, storageMode, hookVars>>

\* await preloadRates(cs)
CallPreloadRates ==
    \E cs \in PreloadLists :
       /\ last' = [op |-> "preloadRates", currencies |-> cs,
                   result |-> preloadRates(cs)]
       /\ UNCHANGED <<now, ticks, provider, quote, memoryCache, cachedData,
                    localStorage, storageMode, hookVars>>

Next ==
    \/ Tick
    \/ ProviderChange
    \/ CallSet
    \/ CallClear
    \/ CallClearCurrency
    \/ CallGet
    \/ CallIsValid
    \/ CallIsStale
    \/ CallFetchExchangeRates
    \/ CallGetRates
    \/ CallRefreshRates
    \/ CallPreloadRates

Spec == Init /\ [][Next]_vars

(***************************************************************************)
(* getRates on its own, against a cache its caller fills and a provider    *)
(* whose behaviour changes, as time passes.                                *)
(***************************************************************************)
GetRatesInit ==
    /\ Init
    /\ quote = 93

GetRatesNext ==
    \/ Tick
    \/ ProviderChange
    \/ CallSet
    \/ CallGetRates

GetRatesSpec == GetRatesInit /\ [][GetRatesNext]_vars

(***************************************************************************)
(* The cache on its own, over every content and behaviour of localStorage. *)
(***************************************************************************)
CacheInit ==
    /\ now = 0
    /\ ticks = 0
    /\ provider = "ok"
    /\ quote \in Quotes
    /\ memoryCache = [k \in Keys |-> Null]
    /\ cachedData = [k \in Keys |-> Null]
    /\ localStorage \in {f \in [Keys -> UNION {StoredItems(k) : k \in Keys}] :
                            \A k \in Keys : f[k] \in StoredItems(k)}
    /\ storageMode \in StorageModes
    /\ useRates = UnmountedRates
    /\ useConversion = UnmountedConversion
    /\ visibility = [state |-> "visible", since |-> 0]
    /\ last = Idle

CacheNext ==
    \/ Tick
    \/ CallSet
    \/ CallClear
    \/ CallClearCurrency
    \/ CallGet
    \/ CallIsValid
    \/ CallIsStale

CacheSpec == CacheInit /\ [][CacheNext]_vars

(***************************************************************************)
(* The conversion engine on its own: pure functions applied to inputs      *)
(* drawn from small sets.                                                  *)
(***************************************************************************)
ConvInit ==
    /\ now = 0
    /\ ticks = 0
    /\ provider = "ok"
    /\ quote = 93
    /\ memoryCache = [k \in Keys |-> Null]
    /\ cachedData = [k \in Keys |-> Null]
    /\ localStorage = [k \in Keys |-> Null]
    /\ storageMode = "ok"
    /\ useRates = UnmountedRates
    /\ useConversion = UnmountedConversion
    /\ visibility = [state |-> "visible", since |-> 0]
    /\ last = Idle

\* calculateCrossRate(from, to, s.rates, s.base)
CallCalculateCrossRate ==
    \E from \in Codes, to \in Codes, s \in Snapshots :
       /\ last' = [op |-> "calculateCrossRate", from |-> from, to |-> to,
                   rateData |-> s,
                   result |-> calculateCrossRate(from, to, s.rates, s.base)]
       /\ UNCHANGED <<now, ticks, provider, quote, memoryCache, cachedData,
                    localStorage, storageMode, hookVars>>

\* performConversion(amount, from, to, s)
CallPerformConversion ==
    \E amount \in Amounts, from \in Codes, to \in Codes, s \in Snapshots :
       /\ last' = [op |-> "performConversion", amount |-> amount,
                   from |-> from, to |-> to, rateData |-> s,
                   result |-> performConversion(amount, from, to, s)]
       /\ UNCHANGED <<now, ticks, provider, quote, memoryCache, cachedData,
                    localStorage, storageMode, hookVars>>

\* roundToDecimals(value, decimals)
CallRoundToDecimals ==
    \E value \in RoundValues, decimals \in RoundDecimals :
       /\ last' = [op |-> "roundToDecimals", value |-> value,
                   decimals |-> decimals,
                   result |-> roundToDecimals(value, decimals)]
       /\ UNCHANGED <<now, ticks, provider, quote, memoryCache, cachedData,
                    localStorage, storageMode, hookVars>>

\* roundToMinorUnit(value, CURRENCY_MAP[code].minorUnit)
CallRoundToMinorUnit ==
    \E value \in RoundValues, code \in Codes :
       /\ last' = [op |-> "roundToMinorUnit", value |-> value,
                   decimals |-> CURRENCY_MAP[code].minorUnit,
                   result |-> roundToMinorUnit(value,
                                               CURRENCY_MAP[code].minorUnit)]
       /\ UNCHANGED <<now, ticks, provider, quote, memoryCache, cachedData,
                    localStorage, storageMode, hookVars>>

\* validateAmount(input)
CallValidateAmount ==
    \E input \in RawInputs :
       /\ last' = [op |-> "validateAmount", input |-> input,
                   result |-> validateAmount(input)]
       /\ UNCHANGED <<now, ticks, provider, quote, memoryCache, cachedData,
                    localStorage, storageMode, hookVars>>

ConvNext ==
    \/ CallCalculateCrossRate
    \/ CallPerformConversion
    \/ CallRoundToDecimals
    \/ CallRoundToMinorUnit
    \/ CallValidateAmount

ConvSpec == ConvInit /\ [][ConvNext]_vars

(***************************************************************************)
(* The hooks on their own: a component that uses useConversion (and,       *)
(* through it, useRates) is mounted, driven by its user one event at a     *)
(* time, and unmounted, while time passes and the page is hidden and shown.*)
(***************************************************************************)
HookInit == ConvInit

\* The component mounts: first render of useConversion and useRates.
Mount ==
    /\ ~useRates.mounted
    /\ useConversion' = UnmountedConversion
    /\ useRates' = InitialRates(DEFAULT_BASE_CURRENCY)
    /\ last' = Idle
    /\ UNCHANGED <<now, ticks, provider, quote, memoryCache, cachedData,
                   localStorage, storageMode, visibility>>

\* The component unmounts; the cleanup of the auto-refresh effect is empty.
Unmount ==
    /\ useRates.mounted
    /\ useRates' = [useRates EXCEPT !.mounted = FALSE, !.effectPending = FALSE]
    /\ last' = Idle
    /\ UNCHANGED <<now, ticks, provider, quote, memoryCache, cachedData,
                   localStorage, storageMode, useConversion, visibility>>

\* The effect [fetchRates] runs after the render that scheduled it.  The
\* auto-refresh effect runs with it and sets up nothing.
RunFetchEffect ==
    /\ useRates.mounted
    /\ useRates.effectPending
    /\ useRates' = [fetchRates(useRates) EXCEPT !.effectPending = FALSE]
    /\ last' = [op |-> "fetchRates", before |-> useRates]
    /\ UNCHANGED <<now, ticks, provider, quote, memoryCache, cachedData,
                   localStorage, storageMode, useConversion, visibility>>

\* The consumer calls refetch().
CallRefetch ==
    /\ useRates.mounted
    /\ ~useRates.effectPending
    /\ useRates' = refetch(useRates)
    /\ last' = [op |-> "refetch", before |-> useRates]
    /\ UNCHANGED <<now, ticks, provider, quote, memoryCache, cachedData,
                   localStorage, storageMode, useConversion, visibility>>

\* The consumer calls setAmount(text).
CallSetAmount ==
    /\ useRates.mounted
    /\ \E text \in AmountTexts :
          /\ useConversion' = [useConversion EXCEPT !.amount = text]
          /\ last' = [op |-> "setAmount", newAmount |-> text,
                      before |-> useConversion]
    /\ UNCHANGED <<now, ticks, provider, quote, memoryCache, cachedData,
                   localStorage, storageMode, useRates, visibility>>

\* The consumer calls the exposed setFromCurrency(c).
CallSetFromCurrency ==
    /\ useRates.mounted
    /\ \E c \in Codes :
          /\ useConversion' = handleFromCurrencyChange(useConversion, c)
          /\ useRates' = Rerender(useRates, useConversion')
          /\ last' = [op |-> "setFromCurrency", newCurrency |-> c,
                      before |-> useConversion]
    /\ UNCHANGED <<now, ticks, provider, quote, memoryCache, cachedData,
                   localStorage, storageMode, visibility>>

\* The consumer calls the exposed setToCurrency(c).
CallSetToCurrency ==
    /\ useRates.mounted
    /\ \E c \in Codes :
          /\ useConversion' = handleToCurrencyChange(useConversion, c)
          /\ useRates' = Rerender(useRates, useConversion')
          /\ last' = [op |-> "setToCurrency", newCurrency |-> c,
                      before |-> useConversion]
    /\ UNCHANGED <<now, ticks, provider, quote, memoryCache, cachedData,
                   localStorage, storageMode, visibility>>

\* The consumer calls swap().
CallSwap ==
    /\ useRates.mounted
    /\ useConversion' = swap(useConversion)
    /\ useRates' = Rerender(useRates, useConversion')
    /\ last' = [op |-> "swap", before |-> useConversion]
    /\ UNCHANGED <<now, ticks, provider, quote, memoryCache, cachedData,
                   localStorage, storageMode, visibility>>

\* The page goes to the background, or comes back: no listener of the
\* hooks is registered for visibilitychange.
VisibilityChange ==
    /\ visibility' = [state |-> IF visibility.state = "visible"
                                THEN "hidden" ELSE "visible",
                      since |-> now]
    /\ last' = Idle
    /\ UNCHANGED <<now, ticks, provider, quote, memoryCache, cachedData,
                   localStorage, storageMode, useRates, useConversion>>

HookNext ==
    \/ Tick
    \/ Mount
    \/ Unmount
    \/ RunFetchEffect
    \/ CallRefetch
    \/ CallSetAmount
    \/ CallSetFromCurrency
    \/ CallSetToCurrency
    \/ CallSwap
    \/ VisibilityChange

HookSpec == HookInit /\ [][HookNext]_vars

(***************************************************************************)
(* What the claims speak of.                                               *)
(***************************************************************************)
\* The entry the cache was last asked to hold for `base`, Null when none.
Entry(base) == cachedData[getCacheKey(base)]

HasEntry(base) == Entry(base) # Null

\* age = now - cachedAt of that entry.
Age(base) == now - Entry(base).cachedAt

\* An entry younger than the freshness window: now < expiresAt.
FreshEntry(base) == HasEntry(base) /\ now < Entry(base).expiresAt

\* An entry of age in [5 min, 24 h).
StaleEntry(base) ==
    /\ HasEntry(base)
    /\ Age(base) >= RATE_CACHE_DURATION
    /\ Age(base) < STALE_CACHE_THRESHOLD

\* Modes in which every request to the provider fails, whatever the retries.
FailingModes == ProviderModes \ {"ok"}

\* Modes in which the provider answers 200 with a body that breaks a rule.
BadBodyModes ==
    {"no_timestamp", "no_rates", "old_timestamp", "rate_zero", "rate_nan"}

\* Failures that are retried: NETWORK_ERROR, TIMEOUT and a 5xx API_ERROR.
RetryableOutcomes == {"NETWORK_ERROR", "TIMEOUT", "API_ERROR_5xx"}

\* The calls a finished call made to `fn`, in order.  A call is a record
\* [fn, arg, outcome]: an attempt is a call of "fetchWithTimeout" whose
\* outcome is "ok" or the failure it ended with; a wait is a call of "sleep".
CallsTo(result, fn) == SelectSeq(result.calls, LAMBDA c : c.fn = fn)

Attempts(result) == CallsTo(result, "fetchWithTimeout")

Waits(result) ==
    LET slept == CallsTo(result, "sleep")
    IN  [i \in 1..Len(slept) |-> slept[i].arg]

\* A snapshot that passes every validation rule at the present time.
\* The operations of RateCache.
CacheOps == {"get", "set", "isValid", "isStale", "clear", "clearCurrency"}

\* A stored item that parses to a CachedRates.
WellFormedItem(item) ==
    /\ item # Null
    /\ item.raw = "json"
    /\ DOMAIN item.parsed = {"data", "cachedAt", "expiresAt"}

\* The key the specification gives a base code: the prefix and the code in
\* lower case.
LowercasedKey(base) ==
    CASE base \in {"USD", "usd"} -> "currency_converter_rate_cache_usd"
      [] base \in {"EUR", "eur"} -> "currency_converter_rate_cache_eur"

WellFormed(data) ==
    /\ data.base # Null
    /\ data.timestamp # Null
    /\ data.rates # Null
    /\ now - data.timestamp.ms < STALE_CACHE_THRESHOLD
    /\ data.timestamp.ms <= now
    /\ \A c \in DOMAIN data.rates :
          data.rates[c].n \in Int /\ data.rates[c].n > 0

(***************************************************************************)
(* Claims.                                                                 *)
(***************************************************************************)
\* C1: whenever the cache holds a fresh entry for base when getRates(base)
\* is called, getRates resolves with {data: the cached snapshot, source:
\* "cache"} and fetchExchangeRates is invoked zero times during the call.
C1_FreshEntryServedFromCache ==
    (last.op = "getRates" /\ FreshEntry(last.base)) =>
        /\ last.result.settled = "resolved"
        /\ last.result.value =
              [data |-> Entry(last.base).data, source |-> "cache"]
        /\ CallsTo(last.result, "fetchExchangeRates") = <<>>

\* C2: when the cache is not valid for base, the fetch fails and an entry
\* for base of age in [5 min, 24 h) exists, getRates(base) resolves (does
\* not reject) with {data: that cached snapshot, source: "stale"}.
C2_StaleEntryServedOnFetchFailure ==
    (/\ last.op = "getRates"
     /\ provider \in FailingModes
     /\ ~FreshEntry(last.base)
     /\ StaleEntry(last.base)) =>
        /\ last.result.settled = "resolved"
        /\ last.result.value =
              [data |-> Entry(last.base).data, source |-> "stale"]

\* C3: getRates(base) rejects if and only if the fetch fails and the cache
\* holds no entry for base younger than 24 hours; when it rejects, it
\* rejects with the RateFetchError that fetchExchangeRates threw.
C3_RejectsOnlyWithoutUsableCache ==
    last.op = "getRates" =>
        /\ (last.result.settled = "rejected") <=>
              (/\ provider \in FailingModes
               /\ ~(HasEntry(last.base) /\ Age(last.base) < STALE_CACHE_THRESHOLD))
        /\ last.result.settled = "rejected" =>
              LET fetches == CallsTo(last.result, "fetchExchangeRates")
              IN  /\ fetches # <<>>
                  /\ last.result.error.name = "RateFetchError"
                  /\ last.result.error = fetches[Len(fetches)].outcome.error

\* C4: when the cache is not valid for base and the fetch succeeds with
\* snapshot r, getRates(base) calls rateCache.set(base, r) and resolves
\* with {data: r, source: "network"}.
C4_NetworkResultCachedAndReturned ==
    (/\ last.op = "getRates"
     /\ ~FreshEntry(last.base)
     /\ provider = "ok") =>
        LET r == ResponseBody(last.base)
            sets == CallsTo(last.result, "rateCache.set")
        IN  /\ last.result.settled = "resolved"
            /\ last.result.value = [data |-> r, source |-> "network"]
            /\ Len(sets) = 1
            /\ sets[1].arg = <<last.base, r>>

\* C5: refreshRates(base) invokes the fetcher even when the entry for base
\* is fresh; when the fetch fails it rejects with that error even if a
\* fresh or stale entry exists; it never returns cached data.
C5_RefreshAlwaysFetches ==
    last.op = "refreshRates" =>
        LET fetches == CallsTo(last.result, "fetchExchangeRates")
        IN  /\ fetches # <<>>
            /\ provider \in FailingModes =>
                  /\ last.result.settled = "rejected"
                  /\ last.result.error = fetches[Len(fetches)].outcome.error
            /\ last.result.settled = "resolved" =>
                  last.result.value = fetches[Len(fetches)].outcome.value

\* C6: fetchExchangeRates makes 1 initial attempt and at most 2 retries: a
\* further attempt follows only an attempt that failed with NETWORK_ERROR,
\* TIMEOUT or a 5xx API_ERROR, after a wait of 200 ms (before the second)
\* and 400 ms (before the third); the call returns the snapshot of the
\* first attempt that succeeds and fails with a RateFetchError once the
\* third attempt has failed.
C6_ThreeAttemptsWithBackoff ==
    last.op = "fetchExchangeRates" =>
        LET r == last.result
            att == Attempts(r)
            n == Len(att)
        IN  /\ n >= 1
            /\ n <= RETRY_ATTEMPTS + 1
            /\ Waits(r) = SubSeq(RETRY_DELAYS, 1, n - 1)
            /\ \A i \in 1..(n - 1) : att[i].outcome \in RetryableOutcomes
            /\ r.settled = "resolved" =>
                  att[n].outcome = "ok" /\ r.value = att[n].value
            /\ r.settled = "rejected" =>
                  /\ r.error.name = "RateFetchError"
                  /\ att[n].outcome # "ok"
                  /\ att[n].outcome \in RetryableOutcomes => n = RETRY_ATTEMPTS + 1

\* C7: when an attempt fails with INVALID_RESPONSE or a 4xx API_ERROR, no
\* further attempt is made: the call fails with that error after exactly
\* that attempt.
C7_NonTransientFailureNotRetried ==
    (/\ last.op = "fetchExchangeRates"
     /\ provider \in BadBodyModes \cup {"http_404"}) =>
        /\ Len(Attempts(last.result)) = 1
        /\ last.result.settled = "rejected"
        /\ last.result.error.name = "RateFetchError"
        /\ last.result.error.code =
              IF provider = "http_404" THEN "API_ERROR" ELSE "INVALID_RESPONSE"

\* C8: an attempt whose response has not arrived within API_TIMEOUT is
\* aborted and fails with a RateFetchError of code TIMEOUT; a response that
\* arrives after the abort is never returned.
C8_AttemptTimesOut ==
    (last.op = "fetchExchangeRates" /\ provider = "hang") =>
        LET att == Attempts(last.result)
        IN  /\ att # <<>>
            /\ \A i \in 1..Len(att) :
                  /\ att[i].outcome = "TIMEOUT"
                  /\ att[i].abortedAfter = API_TIMEOUT
            /\ last.result.settled = "rejected"
            /\ last.result.error.name = "RateFetchError"
            /\ last.result.error.code = "TIMEOUT"

\* C9: every snapshot that fetchExchangeRates returns has base, timestamp
\* and rates present, a timestamp within the 24 hours before receipt and
\* every rate finite and > 0; a response that breaks one of these rules
\* makes the call fail with INVALID_RESPONSE instead of being returned.
C9_ResponseValidated ==
    last.op = "fetchExchangeRates" =>
        /\ last.result.settled = "resolved" => WellFormed(last.result.value)
        /\ provider \in BadBodyModes =>
              /\ last.result.settled = "rejected"
              /\ last.result.error.name = "RateFetchError"
              /\ last.result.error.code = "INVALID_RESPONSE"

\* C10: rateCache.isValid(base) is true if and only if an entry for base
\* exists and now < expiresAt: an entry cached at T is valid at T+4:59, not
\* valid at T+5:01, and isValid is false when there is no entry.
C10_IsValidIffFresh ==
    last.op = "isValid" => (last.result <=> FreshEntry(last.base))

\* C11: isStale(base) is true exactly when an entry for base exists and its
\* age is at least 5 minutes and less than 24 hours.
C11_IsStaleIffAged ==
    last.op = "isStale" => (last.result <=> StaleEntry(last.base))

\* C12: after set(base, s) at time t, get(base) returns the entry holding s
\* with cachedAt = t and expiresAt = t + 5 min, until the next set or clear.
C12_GetReturnsWhatSetStored ==
    (last.op = "get" /\ HasEntry(last.base)) =>
        /\ last.result = Entry(last.base)
        /\ last.result.expiresAt = last.result.cachedAt + RATE_CACHE_DURATION

\* C13: no RateCache operation throws, whatever localStorage does; a failed
\* durable read is a miss, and after set the fast tier holds the entry even
\* when the durable write failed.
C13_NeverThrowsFastTierWritten ==
    /\ last.op \in CacheOps => ~last.threw
    /\ (last.op = "get" /\ storageMode = "access_denied"
            /\ memoryCache[last.key] = Null) => last.result = Null
    /\ last.op = "set" =>
            /\ memoryCache[last.key] # Null
            /\ memoryCache[last.key] = cachedData[last.key]

\* C14: a get that finds the fast tier empty returns the well-formed
\* CachedRates localStorage holds for the base and leaves it in the fast
\* tier; when the item is missing or malformed it returns null and the fast
\* tier stays empty.
C14_DurableReadPromotes ==
    [][\A b \in Bases :
         LET key == getCacheKey(b)
         IN  (last'.op = "get" /\ last'.base = b /\ memoryCache[key] = Null) =>
                 IF storageMode = "ok" /\ WellFormedItem(localStorage[key])
                 THEN /\ last'.result = localStorage[key].parsed
                      /\ memoryCache'[key] = localStorage[key].parsed
                 ELSE /\ last'.result = Null
                      /\ memoryCache'[key] = Null]_vars

C16_ClearRemovesBothTiers ==
    [][/\ \A b \in Bases :
            (last'.op = "clearCurrency" /\ last'.base = b) =>
                /\ memoryCache'[getCacheKey(b)] = Null
                /\ storageMode = "ok" => localStorage'[getCacheKey(b)] = Null
                /\ \A k \in Keys \ {getCacheKey(b)} :
                        /\ memoryCache'[k] = memoryCache[k]
                        /\ localStorage'[k] = localStorage[k]
       /\ last'.op = "clear" =>
                \A k \in Keys :
                    /\ memoryCache'[k] = Null
                    /\ storageMode = "ok" => localStorage'[k] = Null]_vars

\* C17: preloadRates(bases) starts getRates for every listed base and
\* resolves whatever fails; every base whose fetch succeeds ends up cached.
C17_PreloadFetchesEveryBase ==
    last.op = "preloadRates" =>
        /\ last.result.settled = "resolved"
        /\ \A i \in 1..Len(last.currencies) :
              /\ \E c \in 1..Len(last.result.calls) :
                    /\ last.result.calls[c].fn = "getRates"
                    /\ last.result.calls[c].arg = last.currencies[i]
              /\ provider = "ok" =>
                    memoryCache[getCacheKey(last.currencies[i])] # Null

\* The rate the specification gives for from -> to when it needs no
\* division: 1 for a currency to itself, rates[to] out of the base.
DirectRate(from, to, rateData) ==
    IF from = to THEN Num(1, 1) ELSE rateData.rates[to]

\* C19: performConversion(amount, from, to, snapshot) returns the cross
\* rate, amount * rate rounded to the target's minor unit, the snapshot's
\* timestamp and the target's symbol followed by the amount; 100 USD to EUR
\* at 0.93 gives 93.00 and "€93.00".
C19_PerformConversionResult ==
    (/\ last.op = "performConversion"
     /\ \/ last.from = last.to
        \/ /\ last.from = last.rateData.base
           /\ last.to \in DOMAIN last.rateData.rates) =>
        /\ ~last.result.threw
        /\ LET r      == last.result.value
               rate   == DirectRate(last.from, last.to, last.rateData)
               amount == roundToMinorUnit(convertAmount(last.amount, rate),
                                          CURRENCY_MAP[last.to].minorUnit)
           IN  /\ NumEq(r.rate, rate)
               /\ NumEq(r.amount, amount)
               /\ r.timestamp = last.rateData.timestamp
               /\ r.formatted = formatCurrency(amount, last.to)
               /\ (/\ last.amount = Num(100, 1)
                   /\ last.from = "USD"
                   /\ last.to = "EUR"
                   /\ NumEq(rate, Num(93, 100))) =>
                       /\ NumEq(r.amount, Num(93, 1))
                       /\ r.formatted = "€93.00"

\* C20: calculateCrossRate(X, X, rates, base) returns 1 for every X, rates
\* and base, X absent from rates or equal to base included; it never throws.
C20_SameCurrencyRateIsOne ==
    (last.op = "calculateCrossRate" /\ last.from = last.to) =>
        /\ ~last.result.threw
        /\ NumEq(last.result.value, Num(1, 1))

\* The rates a conversion from -> to reads: each side that is not the base.
NeededRates(from, to, rateData) == {c \in {from, to} : c # rateData.base}

\* A rate that is present, finite and > 0.
UsableRate(c, rates) ==
    /\ c \in DOMAIN rates
    /\ rates[c].den > 0
    /\ rates[c].num > 0

\* The rate the specification gives for from # to.
CrossRate(from, to, rateData) ==
    LET rates == rateData.rates
    IN  IF from = rateData.base THEN rates[to]
        ELSE IF to = rateData.base
             THEN Num(rates[from].den, rates[from].num)
             ELSE Num(rates[to].num * rates[from].den,
                      rates[to].den * rates[from].num)

\* C21: for from # to with the needed rates present, finite and > 0,
\* calculateCrossRate returns rates[to] out of the base, 1 / rates[from]
\* into the base and rates[to] / rates[from] otherwise.
C21_CrossRateCases ==
    (/\ last.op = "calculateCrossRate"
     /\ last.from # last.to
     /\ \A c \in NeededRates(last.from, last.to, last.rateData) :
            UsableRate(c, last.rateData.rates)) =>
        /\ ~last.result.threw
        /\ NumEq(last.result.value,
                 CrossRate(last.from, last.to, last.rateData))

\* C22: for from # to, calculateCrossRate throws when a rate it needs is
\* missing, non-finite or <= 0, and it never returns a rate that is not a
\* positive finite number.
C22_ThrowsOnUnusableRate ==
    (last.op = "calculateCrossRate" /\ last.from # last.to) =>
        /\ (\E c \in NeededRates(last.from, last.to, last.rateData) :
                ~UsableRate(c, last.rateData.rates)) => last.result.threw
        /\ ~last.result.threw =>
                (last.result.value.den > 0 /\ last.result.value.num > 0)

\* C22 witness: USD -> EUR was asked of a USD snapshot whose EUR rate is
\* missing, zero or non-finite, and the call threw.
C22_Witness ==
    /\ last.op = "calculateCrossRate"
    /\ last.from = "USD"
    /\ last.to = "EUR"
    /\ last.rateData.base = "USD"
    /\ ~UsableRate("EUR", last.rateData.rates)
    /\ last.result.threw

\* A value that lies exactly half-way between two neighbours at the
\* precision `decimals`.
IsTie(value, decimals) ==
    LET twice == 2 * value.num * Pow10(decimals)
    IN  twice % value.den = 0 /\ (twice \div value.den) % 2 = 1

\* The neighbour below `value` at the precision, in units of the precision.
FloorAt(value, decimals) == (value.num * Pow10(decimals)) \div value.den

\* C23: roundToDecimals, and roundToMinorUnit with it, rounds an exact tie
\* at the target precision to the neighbour whose last digit is even:
\* 2.5 -> 2, 3.5 -> 4.
C23_TiesRoundToEven ==
    (/\ last.op \in {"roundToDecimals", "roundToMinorUnit"}
     /\ IsTie(last.value, last.decimals)) =>
        LET k    == FloorAt(last.value, last.decimals)
            even == IF k % 2 = 0 THEN k ELSE k + 1
        IN  NumEq(last.result, Num(even, Pow10(last.decimals)))

\* The amounts the specification accepts among RawInputs, with the number
\* each stands for.
AcceptedAmounts ==
    [r \in {"100.50", "1,234.56"} |->
        IF r = "100.50" THEN Num(10050, 100) ELSE Num(123456, 100)]

\* C24: validateAmount(raw) returns valid = true with the parsed number
\* exactly when raw is non-empty, numeric once grouping separators are
\* removed, non-negative and of at most 15 integer digits, and valid =
\* false with an error otherwise.
C24_ValidateAmount ==
    last.op = "validateAmount" =>
        IF last.input \in DOMAIN AcceptedAmounts
        THEN /\ last.result.valid
             /\ NumEq(last.result.value, AcceptedAmounts[last.input])
        ELSE /\ ~last.result.valid
             /\ "error" \in DOMAIN last.result

\* The latest of a set of times.
Latest(times) == CHOOSE t \in times : \A u \in times : u <= t

\* Since when the mounted hook has gone without calling getRates on a
\* visible page.
QuietSince ==
    Latest({useRates.mountedAt, visibility.since}
           \cup {useRates.requests[i] : i \in DOMAIN useRates.requests})

\* C25: while a useRates consumer is mounted, getRates is called again
\* every 5 minutes on a visible page, never while the page is hidden, and
\* at once when the page becomes visible again.
C25_AutoRefresh ==
    useRates.mounted =>
        IF visibility.state = "visible"
        THEN /\ now - QuietSince <= API_REFRESH_INTERVAL
             /\ visibility.since > useRates.mountedAt =>
                    \E i \in DOMAIN useRates.requests :
                        useRates.requests[i] = visibility.since
        ELSE \A i \in DOMAIN useRates.requests :
                  useRates.requests[i] <= visibility.since

\* C26: fromCurrency # toCurrency in every state of useConversion; setting
\* one side to the currency of the other swaps the two, and swap exchanges
\* them and leaves the amount as it was.
C26_FromDiffersFromTo ==
    /\ useConversion.fromCurrency # useConversion.toCurrency
    /\ (/\ last.op = "setFromCurrency"
        /\ last.newCurrency = last.before.toCurrency) =>
            /\ useConversion.fromCurrency = last.before.toCurrency
            /\ useConversion.toCurrency = last.before.fromCurrency
    /\ (/\ last.op = "setToCurrency"
        /\ last.newCurrency = last.before.fromCurrency) =>
            /\ useConversion.fromCurrency = last.before.toCurrency
            /\ useConversion.toCurrency = last.before.fromCurrency
    /\ last.op = "swap" =>
            /\ useConversion.fromCurrency = last.before.toCurrency
            /\ useConversion.toCurrency = last.before.fromCurrency
            /\ useConversion.amount = last.before.amount

\* C26 witness: with an amount entered, the from side was set to the
\* currency then on the to side, and the two were swapped.
C26_Witness ==
    /\ last.op = "setFromCurrency"
    /\ last.newCurrency = last.before.toCurrency
    /\ last.before.amount = "100"
    /\ useConversion.fromCurrency = last.newCurrency
    /\ useConversion.toCurrency = last.before.fromCurrency

\* C27: after getRates(base) resolved with source "network", a getRates
\* for the same base within 5 minutes, no clear in between, resolves with
\* source "cache" and the same snapshot and makes no fetch.
C27_SecondCallServedFromCache ==
    (/\ last.op = "getRates"
     /\ last.previous # Null
     /\ getCacheKey(last.previous.base) = getCacheKey(last.base)
     /\ provider = "ok") =>
        /\ last.previous.result.settled = "resolved"
        /\ last.result.settled = "resolved"
        /\ last.result.value.source = "cache"
        /\ last.result.value.data = last.previous.result.value.data
        /\ CallsTo(last.result, "fetchExchangeRates") = <<>>

\* C29: a getRates call that rejects, or resolves with source "cache" or
\* "stale", stores nothing: the cache entries are after it what they were
\* before it.
C29_OnlyNetworkResultStored ==
    [][(/\ last'.op = "getRates"
        /\ \/ last'.result.settled = "rejected"
           \/ last'.result.value.source \in {"cache", "stale"}) =>
            /\ CallsTo(last'.result, "rateCache.set") = <<>>
            /\ memoryCache' = memoryCache
            /\ cachedData' = cachedData
            /\ localStorage' = localStorage]_vars

\* C29 witness: getRates rejected for a base whose entry, set earlier, is
\* stale by now.
C29_Witness ==
    /\ last.op = "getRates"
    /\ last.result.settled = "rejected"
    /\ StaleEntry(last.base)
    /\ Entry(last.base).cachedAt < now

\* C30: every run of fetchRates or refetch ends with loading = false and
\* the error reset; loading is not left true once the run is over.
C30_RunEndsNotLoading ==
    /\ last.op \in {"fetchRates", "refetch"} =>
            /\ useRates.loading = FALSE
            /\ useRates.error = Null
    /\ (useRates.mounted /\ ~useRates.effectPending) => ~useRates.loading

\* C30 witness: the fetch effect ran on the first render's loading = true
\* and left loading = false.
C30_Witness ==
    /\ last.op = "fetchRates"
    /\ last.before.loading = TRUE
    /\ useRates.loading = FALSE

====
